---------------------------- MODULE Spec2Model ----------------------------
(***************************************************************************)
(* A model of two subsystems of goboscript:                                *)
(*   - the translation-unit preprocessor (src/src/translation_unit.rs):    *)
(*     the byte buffer, the %-directives and the include table;            *)
(*   - the block emitter of the sb3 code generator                         *)
(*     (src/src/codegen/sb3.rs): proc, func, event, stmts and stmt.        *)
(* Bytes are one-character strings, a file is a sequence of bytes, and     *)
(* offsets are 0-based as in the source (byte k of t is t[k + 1]).         *)
(***************************************************************************)
EXTENDS Integers, Sequences, FiniteSets, TLC

VARIABLES
    root,             \* the bytes of the root file on disk (never written)
    text,             \* TranslationUnit.text
    defines,          \* TranslationUnit.defines
    includes,         \* TranslationUnit.includes
    included,         \* TranslationUnit.included
    current_include,  \* TranslationUnit.current_include
    diagnostics,      \* parse's local `diagnostics`
    comment,          \* parse's local `comment`
    i,                \* parse's local `i`
    pc,               \* "parse" while the loop of parse runs, "done" after it
    origin,           \* history: for each byte of text, the file and offset it was read from
    region,           \* history: where the %endif matching the last false %if ends
    calls,            \* history: the live %include directives met, in order
    project,          \* the Project being emitted: its targets, the Stage first
    id,               \* Sb3.id, the NodeIDFactory
    blocks,           \* the block nodes written into each target's "blocks"
    sink,             \* the diagnostics reported to each target's SpriteDiagnostics
    target,           \* the target sprite() is emitting
    callable,         \* the proc, func or event of the target that is next or in progress
    at,               \* stmts: the index of the statement of this iteration
    this_id,          \* stmts: this_id
    parent_id,        \* stmts: parent_id
    emit,             \* where emission stands: "sprite", "callable", "stmts", "done", "aborted"
    sprites,          \* the Stage and a sprite as the declarations and qualify_name see them
    variables,        \* the keys written into each target's "variables"
    lists,            \* the keys written into each target's "lists"
    nsink,            \* the diagnostics reported to each target's SpriteDiagnostics
    ntarget,          \* the target whose declarations and blocks are being written
    todo,             \* the declarations of the target still to be written, in order
    resolved,         \* history: the calls of qualify_name, in order
    nphase,           \* "sprite", "target", "done"
    costume_in,       \* the costumes of each target, in order
    costumes,         \* Sb3.costumes: path -> hash
    entries,          \* the costume entries written into project.json, per target
    zip,              \* the archive entries written after project.json
    added,            \* assets: `added`
    visited,          \* assets: the paths of the registry the loop has been over
    asink,            \* the diagnostics reported for costumes, per target
    opens,            \* history: the paths costume() has called File::open on
    atarget,          \* the target whose costumes are being written
    acostume,         \* the index of the next costume of the target
    aphase            \* "costumes", "assets", "done", "io_error", "aborted"

ppvars == <<root, text, defines, includes, included, current_include,
            diagnostics, comment, i, pc, origin, region, calls>>

genvars == <<project, id, blocks, sink, target, callable, at, this_id, parent_id, emit>>

namevars == <<sprites, variables, lists, nsink, ntarget, todo, resolved, nphase>>

assetvars == <<costume_in, costumes, entries, zip, added, visited, asink, opens,
               atarget, acostume, aphase>>

vars == <<ppvars, genvars, namevars, assetvars>>

-----------------------------------------------------------------------------
(* Bytes and byte strings *)

NL == "\n"
CR == "\r"
SP == " "
PCT == "%"
HASH == "#"

At(t, k) == t[k + 1]
Put(t, k, c) == [t EXCEPT ![k + 1] = c]
Slice(t, k, n) == SubSeq(t, k + 1, k + n)

\* self.text[k..].starts_with(w)
StartsWith(t, k, w) ==
    /\ k + Len(w) <= Len(t)
    /\ \A n \in 1..Len(w) : t[k + n] = w[n]

SetMin(S) == CHOOSE x \in S : \A y \in S : x <= y
SetMax(S) == CHOOSE x \in S : \A y \in S : x >= y

\* self.text[k..].split(|c| c == '\n' || c == '\r').next().unwrap().len()
LineLen(t, k) ==
    LET stops == {n \in k..(Len(t) - 1) : At(t, n) \in {NL, CR}}
    IN  IF stops = {} THEN Len(t) - k ELSE SetMin(stops) - k

\* str::trim
Trim(s) ==
    LET keep == {n \in 1..Len(s) : s[n] \notin {SP, NL, CR, "\t"}}
    IN  IF keep = {} THEN <<>> ELSE SubSeq(s, SetMin(keep), SetMax(keep))

\* the step over an optional '\r'
SkipCR(t, k) == IF StartsWith(t, k, <<CR>>) THEN k + 1 ELSE k
\* the step over an optional '\n'
SkipNL(t, k) == IF StartsWith(t, k, <<NL>>) THEN k + 1 ELSE k

W_include == <<"i", "n", "c", "l", "u", "d", "e">>
W_define == <<"d", "e", "f", "i", "n", "e">>
W_undef == <<"u", "n", "d", "e", "f">>
W_if == <<"i", "f">>
W_endif == <<"e", "n", "d", "i", "f">>
W_not == <<SP, "n", "o", "t", SP>>

-----------------------------------------------------------------------------
(* Paths *)

SLASH == "/"
DOT == "."
GS == <<"g", "s">>

\* Path::parent: the path without its last component
Parent(p) ==
    LET cuts == {n \in 1..Len(p) : p[n] = SLASH}
    IN  IF cuts = {} THEN <<>> ELSE SubSeq(p, 1, SetMax(cuts) - 1)

\* Path::file_name: the last component
FileName(p) ==
    LET cuts == {n \in 1..Len(p) : p[n] = SLASH}
    IN  IF cuts = {} THEN p ELSE SubSeq(p, SetMax(cuts) + 1, Len(p))

\* Path::join of a relative path
Join(dir, p) == IF dir = <<>> THEN p ELSE dir \o <<SLASH>> \o p

\* PathBuf::set_extension("gs"): the extension of the last component, if it has
\* one, is replaced, otherwise ".gs" is appended; a path without a file name is
\* left alone
SetExtension(p) ==
    LET name == FileName(p)
        dots == {n \in 2..Len(name) : name[n] = DOT}
        stem == IF dots = {} THEN name ELSE SubSeq(name, 1, SetMax(dots) - 1)
    IN  IF name = <<>> THEN p
        ELSE Join(Parent(p), stem \o <<DOT>> \o GS)


-----------------------------------------------------------------------------
(* The files on disk *)

MaxRootLines == 3

RootPath == <<"a", DOT, "g", "s">>

Line(word, arg) == <<PCT>> \o word \o arg

\* the lines a root file is made of
Vocabulary ==
    { <<"x">>,
      <<>>,
      Line(W_include, <<SP, "b">>),
      Line(W_include, <<SP, "k">>),
      Line(W_include, <<SP, "s", SLASH, "d">>),
      Line(W_include, <<SP, "m">>),
      Line(W_define, <<SP, "X">>),
      Line(W_undef, <<SP, "X">>),
      Line(W_if, <<SP, "X">>),
      Line(W_if, <<SP, "n", "o", "t", SP, "X">>),
      Line(W_endif, <<>>),
      Line(W_if, <<"d", "e", "f", SP, "X">>) }

RECURSIVE Flat(_)
Flat(ls) == IF ls = <<>> THEN <<>> ELSE Head(ls) \o <<NL>> \o Flat(Tail(ls))

RootContents ==
    { Flat(ls) : ls \in UNION { [1..n -> Vocabulary] : n \in 0..MaxRootLines } }

\* root files of up to MaxLiveLines lines that may also include themselves
MaxLiveLines == 2
LiveVocabulary == Vocabulary \cup { Line(W_include, <<SP, "a">>) }
LiveRootContents ==
    { Flat(ls) : ls \in UNION { [1..n -> LiveVocabulary] : n \in 0..MaxLiveLines } }

\* the other files: b includes c and, after c has ended, e; c begins with a
\* directive; k includes the root file; s/d lives in the directory s and
\* includes e, which exists beside it and beside the root file; m does not exist
FixedFiles ==
    (<<"b", DOT, "g", "s">> :> Flat(<< Line(W_include, <<SP, "c">>), <<"B">>,
                                       Line(W_include, <<SP, "e">>) >>))
    @@ (<<"c", DOT, "g", "s">> :> Flat(<< <<PCT, "z">>, <<"C">> >>))
    @@ (<<"e", DOT, "g", "s">> :> Flat(<< <<"E">> >>))
    @@ (<<"k", DOT, "g", "s">> :> Flat(<< Line(W_include, <<SP, "a">>), <<"K">> >>))
    @@ (<<"s", SLASH, "d", DOT, "g", "s">> :> Flat(<< Line(W_include, <<SP, "e">>), <<"D">> >>))
    @@ (<<"s", SLASH, "e", DOT, "g", "s">> :> Flat(<< <<"S">> >>))

Dirs == { <<"s">> }

RECURSIVE SetToSeq(_)
SetToSeq(S) ==
    IF S = {} THEN <<>>
    ELSE LET x == CHOOSE y \in S : TRUE IN <<x>> \o SetToSeq(S \ {x})

\* the files on disk: path -> bytes
fs == (RootPath :> root) @@ FixedFiles

\* Path::is_file, Path::is_dir
IsFile(p) == p \in DOMAIN fs
IsDir(p) == p \in Dirs

-----------------------------------------------------------------------------
(* TranslationUnit::new *)

NewInclude(us, ue, ss, se, path) ==
    [us |-> us, ue |-> ue, ss |-> ss, se |-> se, path |-> path]

\* Range<usize>::len
RLen(s, e) == IF e >= s THEN e - s ELSE 0

NoRegion == [end |-> -1]

\* the files in some order, to name a file by its number
FilePaths == <<RootPath>> \o SetToSeq(DOMAIN FixedFiles)
FileNo(path) == CHOOSE n \in 1..Len(FilePaths) : FilePaths[n] = path

\* where the n bytes read from a file come from: <<file number, offset>>
OriginOf(path, n) == [k \in 1..n |-> <<FileNo(path), k - 1>>]
OriginPath(o) == FilePaths[o[1]]
OriginOffset(o) == o[2]

PPInitFrom(contents) ==
    /\ root \in contents
    /\ text = fs[RootPath]
    /\ defines = {}
    /\ includes = << NewInclude(0, Len(text), 0, Len(text), RootPath) >>
    /\ included = {}
    /\ current_include = 0
    /\ diagnostics = <<>>
    /\ comment = 0
    /\ i = 0
    /\ pc = "parse"
    /\ origin = OriginOf(RootPath, Len(text))
    /\ region = NoRegion
    /\ calls = <<>>

PPInit == PPInitFrom(RootContents)

-----------------------------------------------------------------------------
(* TranslationUnit::include *)

\* the directory the path of a directive is joined to: self.path.parent()
IncludeBase == Parent(RootPath)

\* the path that `path`, joined to the directory `base`, names: with the
\* extension gs, and inside the directory when it names one
Resolve(base, path) ==
    LET joined == Join(base, path)
        pushed == IF ~IsFile(SetExtension(joined)) /\ IsDir(joined)
                  THEN Join(joined, FileName(joined))
                  ELSE joined
    IN  SetExtension(pushed)

\* the path File::open is called with
OpenPath(path) == Resolve(IncludeBase, path)

\* Vec::splice(begin..begin, buffer)
Splice(t, begin, buffer) ==
    SubSeq(t, 1, begin) \o buffer \o SubSeq(t, begin + 1, Len(t))

\* the record of the text before the include statement
TopInclude(c, begin) ==
    NewInclude(c.us, begin, c.ss, c.ss + RLen(c.us, begin), c.path)

\* the record of the included file
MidInclude(begin, n, path) == NewInclude(begin, begin + n, 0, n, path)

\* the record of the text after the include statement
BottomInclude(c, begin) ==
    NewInclude(begin, c.ue,
               c.ss + RLen(c.us, begin),
               c.ss + RLen(c.us, begin) + RLen(begin, c.ue),
               c.path)

\* the adjust loop moving only the start of every record
AdjustStartOnly(incs, from, n) ==
    [k \in 1..Len(incs) |->
        IF k - 1 >= from
        THEN [incs[k] EXCEPT !.us = @ + n]
        ELSE incs[k]]

\* the adjust loop: every record from index `from` (0-based) on moves by n
Adjust(incs, from, n) ==
    [k \in 1..Len(incs) |->
        IF k - 1 >= from
        THEN [incs[k] EXCEPT !.us = @ + n, !.ue = @ + n]
        ELSE incs[k]]

\* the include table after splicing n bytes of `path` in at `begin`
SplitIncludes(incs, cur, begin, n, path) ==
    LET c == incs[cur + 1]
        split == SubSeq(incs, 1, cur)
                 \o << TopInclude(c, begin), MidInclude(begin, n, path),
                       BottomInclude(c, begin) >>
                 \o SubSeq(incs, cur + 2, Len(incs))
    IN  Adjust(split, cur + 2, n)


-----------------------------------------------------------------------------
(* TranslationUnit::parse: one action per branch of one iteration of the loop *)

Looping == pc = "parse" /\ i < Len(text)

\* `begin`: the offset after "\n%", or after a "%" at offset 0; -1 when the
\* bytes at i do not begin a directive
LiveBegin ==
    IF StartsWith(text, i, <<NL, PCT>>) THEN i + 2
    ELSE IF i = 0 /\ StartsWith(text, 0, <<PCT>>) THEN 1
    ELSE -1

\* the branch of the if-else chain taken for the directive at j
Directive(j) ==
    IF StartsWith(text, j, W_include) THEN "include"
    ELSE IF StartsWith(text, j, W_define) THEN "define"
    ELSE IF StartsWith(text, j, W_undef) THEN "undef"
    ELSE IF StartsWith(text, j, W_if) THEN "if"
    ELSE IF StartsWith(text, j, W_endif) THEN "endif"
    ELSE "other"

Live(word) ==
    /\ Looping
    /\ comment = 0
    /\ LiveBegin >= 0
    /\ Directive(LiveBegin) = word

\* where the %endif that closes a region opened with depth 1 at offset k ends:
\* the offset after its "\n%", or Len(t) + 1 when the region is never closed
RECURSIVE MatchingEndif(_, _, _)
MatchingEndif(t, k, depth) ==
    IF k >= Len(t) THEN Len(t) + 1
    ELSE IF StartsWith(t, k, <<NL, PCT>>)
         THEN IF StartsWith(t, k + 2, W_if) THEN MatchingEndif(t, k + 2, depth + 1)
              ELSE IF StartsWith(t, k + 2, W_endif)
                   THEN IF depth = 1 THEN k + 2
                        ELSE MatchingEndif(t, k + 2, depth - 1)
                   ELSE MatchingEndif(t, k + 2, depth)
         ELSE MatchingEndif(t, k + 1, depth)

\* 0 < comment, "\n%", with a %define in the region taking effect
NeutraliseDirectiveDefining ==
    /\ Looping
    /\ comment > 0
    /\ StartsWith(text, i, <<NL, PCT>>)
    /\ LET j == i + 2
           t1 == Put(text, j - 1, HASH)
           j2 == j + Len(W_define)
       IN  /\ text' = t1
           /\ comment' = IF StartsWith(t1, j, W_if) THEN comment + 1
                         ELSE IF StartsWith(t1, j, W_endif) THEN comment - 1
                         ELSE comment
           /\ defines' = IF StartsWith(t1, j, W_define)
                         THEN defines \cup {Trim(Slice(t1, j2, LineLen(t1, j2)))}
                         ELSE defines
           /\ i' = j
    /\ UNCHANGED <<root, includes, included, current_include,
                   diagnostics, pc, origin, region, calls>>
    /\ UNCHANGED <<genvars, namevars, assetvars>>

\* 0 < comment, "\n%"
NeutraliseDirective ==
    /\ Looping
    /\ comment > 0
    /\ StartsWith(text, i, <<NL, PCT>>)
    /\ LET j == i + 2
           t1 == Put(text, j - 1, HASH)
       IN  /\ text' = t1
           /\ comment' = IF StartsWith(t1, j, W_if) THEN comment + 1
                         ELSE IF StartsWith(t1, j, W_endif) THEN comment - 1
                         ELSE comment
           /\ i' = j
    /\ UNCHANGED <<root, defines, includes, included, current_include,
                   diagnostics, pc, origin, region, calls>>
    /\ UNCHANGED <<genvars, namevars, assetvars>>

\* 0 < comment, "\n"
NeutraliseNewline ==
    /\ Looping
    /\ comment > 0
    /\ ~StartsWith(text, i, <<NL, PCT>>)
    /\ StartsWith(text, i, <<NL>>)
    /\ i' = i + 1
    /\ text' = IF i + 1 < Len(text) THEN Put(text, i + 1, HASH) ELSE text
    /\ UNCHANGED <<root, defines, includes, included, current_include,
                   diagnostics, comment, pc, origin, region, calls>>
    /\ UNCHANGED <<genvars, namevars, assetvars>>

\* 0 < comment, any other byte
NeutraliseByte ==
    /\ Looping
    /\ comment > 0
    /\ ~StartsWith(text, i, <<NL>>)
    /\ i' = i + 1
    /\ UNCHANGED <<root, text, defines, includes, included, current_include,
                   diagnostics, comment, pc, origin, region, calls>>
    /\ UNCHANGED <<genvars, namevars, assetvars>>

\* a lookup that never finds the path
AlreadyIncludedNever(path) == FALSE

\* a lookup of the path as it stands in the line, before it is trimmed
AlreadyIncludedUntrimmed(path) == (<<SP>> \o path) \in included

\* self.included.contains(&path)
AlreadyIncluded(path) == path \in included

Call(path, from, opened, outcome) ==
    [path |-> path, from |-> from, opened |-> opened, outcome |-> outcome]

\* include() returns Err and the error is dropped
IncludeErrorDropped(t1, call, path_span) ==
    /\ text' = t1
    /\ calls' = Append(calls, call)
    /\ UNCHANGED <<includes, current_include, origin, diagnostics>>

\* include() returns Err(Diagnostic { IOError, path_span }) before it has
\* changed anything; parse pushes the diagnostic
IncludeError(t1, call, path_span) ==
    /\ text' = t1
    /\ diagnostics' = Append(diagnostics, [kind |-> "IOError", span |-> path_span])
    /\ calls' = Append(calls, call)
    /\ UNCHANGED <<includes, current_include, origin>>

\* %include; the locals of the branch are bound one after the other, each to
\* its one value
IncludeDirective ==
    /\ Live("include")
    /\ \E j \in {LiveBegin} : \E t1 \in {Put(text, j - 1, HASH)} :
       \E j2 \in {j + Len(W_include)} : \E n \in {LineLen(t1, j2)} :
       \E begin \in {SkipNL(t1, SkipCR(t1, j2 + n))} :
       \E path \in {Trim(Slice(t1, j2, n))} : \E opened \in {OpenPath(path)} :
       \E from \in {OriginPath(At(origin, j - 1))} :
           /\ IF AlreadyIncluded(path)
              THEN /\ text' = t1
                   /\ calls' = Append(calls, Call(path, from, <<>>, "skipped"))
                   /\ UNCHANGED <<includes, current_include, diagnostics, origin>>
              ELSE IF IsFile(opened)
              THEN /\ text' = Splice(t1, begin, fs[opened])
                   /\ origin' = Splice(origin, begin, OriginOf(opened, Len(fs[opened])))
                   /\ includes' = SplitIncludes(includes, current_include, begin,
                                                Len(fs[opened]), opened)
                   /\ current_include' = current_include + 1
                   /\ calls' = Append(calls, Call(path, from, opened, "spliced"))
                   /\ UNCHANGED diagnostics
              ELSE IncludeError(t1, Call(path, from, opened, "failed"), <<j2, j2 + n>>)
           /\ included' = included \cup {path}
           /\ i' = IF StartsWith(text', begin, <<PCT>>) THEN begin - 1 ELSE begin
    /\ UNCHANGED <<root, defines, comment, pc, region>>
    /\ UNCHANGED <<genvars, namevars, assetvars>>

\* %define
DefineDirective ==
    /\ Live("define")
    /\ LET j2 == LiveBegin + Len(W_define)
           n == LineLen(text, j2)
       IN  /\ i' = SkipCR(text, j2 + n)
           /\ defines' = defines \cup {Trim(Slice(text, j2, n))}
    /\ UNCHANGED <<root, text, includes, included, current_include,
                   diagnostics, comment, pc, origin, region, calls>>
    /\ UNCHANGED <<genvars, namevars, assetvars>>

\* %undef
UndefDirective ==
    /\ Live("undef")
    /\ LET j2 == LiveBegin + Len(W_undef)
           n == LineLen(text, j2)
       IN  /\ i' = SkipCR(text, j2 + n)
           /\ defines' = defines \ {Trim(Slice(text, j2, n))}
    /\ UNCHANGED <<root, text, includes, included, current_include,
                   diagnostics, comment, pc, origin, region, calls>>
    /\ UNCHANGED <<genvars, namevars, assetvars>>

\* %if, %if not
IfDirective ==
    /\ Live("if")
    /\ LET j == LiveBegin
           t1 == Put(text, j - 1, HASH)
           invert == StartsWith(t1, j + Len(W_if), W_not)
           j2 == IF invert THEN j + Len(W_if) + Len(W_not) ELSE j + Len(W_if)
           n == LineLen(t1, j2)
           name == Trim(Slice(t1, j2, n))
       IN  /\ text' = t1
           /\ i' = SkipCR(t1, j2 + n)
           /\ comment' = IF (name \in defines) = invert THEN 1 ELSE comment
           /\ region' = IF (name \in defines) = invert
                        THEN [end |-> MatchingEndif(t1, i', 1)]
                        ELSE region
    /\ UNCHANGED <<root, defines, includes, included, current_include,
                   diagnostics, pc, origin, calls>>
    /\ UNCHANGED <<genvars, namevars, assetvars>>

\* %endif
EndifDirective ==
    /\ Live("endif")
    /\ text' = Put(text, LiveBegin - 1, HASH)
    /\ i' = LiveBegin + Len(W_endif)
    /\ UNCHANGED <<root, defines, includes, included, current_include,
                   diagnostics, comment, pc, origin, region, calls>>
    /\ UNCHANGED <<genvars, namevars, assetvars>>

\* a "%" line that matches no branch of the chain
OtherDirective ==
    /\ Live("other")
    /\ i' = LiveBegin
    /\ UNCHANGED <<root, text, defines, includes, included, current_include,
                   diagnostics, comment, pc, origin, region, calls>>
    /\ UNCHANGED <<genvars, namevars, assetvars>>

\* comment = 0, no directive begins here
LiveByte ==
    /\ Looping
    /\ comment = 0
    /\ LiveBegin = -1
    /\ i' = i + 1
    /\ UNCHANGED <<root, text, defines, includes, included, current_include,
                   diagnostics, comment, pc, origin, region, calls>>
    /\ UNCHANGED <<genvars, namevars, assetvars>>

\* the loop ends; parse returns Ok(()) or Err(diagnostics)
ParseDone ==
    /\ pc = "parse"
    /\ i >= Len(text)
    /\ pc' = "done"
    /\ UNCHANGED <<root, text, defines, includes, included, current_include,
                   diagnostics, comment, i, origin, region, calls>>
    /\ UNCHANGED <<genvars, namevars, assetvars>>

Result == IF diagnostics = <<>> THEN "Ok" ELSE "Err"

PPNext ==
    \/ NeutraliseDirective
    \/ NeutraliseNewline
    \/ NeutraliseByte
    \/ IncludeDirective
    \/ DefineDirective
    \/ UndefDirective
    \/ IfDirective
    \/ EndifDirective
    \/ OtherDirective
    \/ LiveByte
    \/ ParseDone

-----------------------------------------------------------------------------
(* TranslationUnit::translate_position *)

\* Range::contains
Contains(inc, p) == inc.us <= p /\ p < inc.ue

\* the index (from 1) of the first record whose unit_range contains p, 0 if none
FirstContaining(p) ==
    LET hits == {k \in 1..Len(includes) : Contains(includes[k], p)}
    IN  IF hits = {} THEN 0 ELSE SetMin(hits)

\* whether the call panics: no record contains p, or, in a build with debug
\* assertions, a record scanned up to the hit fails the debug_assert_eq
Panics(p, debug) ==
    LET hit == FirstContaining(p)
    IN  \/ hit = 0
        \/ /\ debug
           /\ \E k \in 1..hit :
                RLen(includes[k].us, includes[k].ue) # RLen(includes[k].ss, includes[k].se)

\* the pair returned
TranslatePosition(p) ==
    LET inc == includes[FirstContaining(p)]
    IN  [offset |-> inc.ss + (p - inc.us), path |-> inc.path]


-----------------------------------------------------------------------------
(* The block emitter: the input *)

MaxStmts == 3

NoId == -1

\* the statement kinds: Say and SetVar stand for the statements that are no
\* terminators, Say with one reporter block as its argument
StmtKinds == {"Say", "SetVar", "Forever", "StopAll", "StopThisScript",
              "DeleteThisClone", "Return"}

Bodies == UNION { [1..n -> StmtKinds] : n \in 0..MaxStmts }

\* the struct types a sprite declares: type name -> field names
Structs == [Point |-> <<"x", "y">>]

\* the types of the arguments of a proc or func: Value, or a struct by name
ArgLists == { <<>>, <<"Value">>, <<"Point">>, <<"Value", "Nowhere", "Point">> }

Callable(kind, args, body) == [kind |-> kind, args |-> args, body |-> body]

Callables ==
    { Callable(kind, args, body) : kind \in {"proc", "func"}, args \in ArgLists,
                                   body \in Bodies }
    \cup { Callable("event", <<>>, body) : body \in Bodies }

\* the Stage with one event, then a sprite with a proc and one more callable
Projects ==
    { << << Callable("event", <<>>, <<"Say", "StopAll">>) >>,
         << Callable("proc", <<"Value">>, <<"SetVar">>), c >> >> : c \in Callables }

\* the span of statement n of callable c of target t
StmtSpan(t, c, n) == <<t, c, n>>

-----------------------------------------------------------------------------
(* Node and NodeIDFactory *)

\* Node::new(opcode, id); `of` tells which statement of which callable the node
\* was written for (0: the hat or definition, -1: a block beside them)
Node(opcode, nid, c, n) ==
    [opcode |-> opcode, id |-> nid, next |-> NoId, parent |-> NoId,
     top |-> FALSE, shadow |-> FALSE, inputs |-> <<>>, of |-> <<c, n>>]

\* Node::some_next_id, Node::some_parent_id, Node::parent_id
WithNext(node, nid) == [node EXCEPT !.next = nid]
WithParent(node, nid) == [node EXCEPT !.parent = nid]
\* Node::top_level(true), Node::shadow(true)
TopLevel(node) == [node EXCEPT !.top = TRUE]
Shadow(node) == [node EXCEPT !.shadow = TRUE]
\* the block ids written into the node's "inputs"
WithInputs(node, ids) == [node EXCEPT !.inputs = ids]

\* NodeIDFactory::new_id hands out the counter and steps it; reset sets it to 0
FirstId == 0

-----------------------------------------------------------------------------
(* Sb3::sprite, Sb3::proc, Sb3::func, Sb3::event, Sb3::stmts, Sb3::stmt *)

Current == project[target][callable]

Write(nodes) == blocks' = [blocks EXCEPT ![target] = @ \o nodes]
Report(ds) == sink' = [sink EXCEPT ![target] = @ \o ds]

GenInit ==
    /\ project \in Projects
    /\ id = FirstId
    /\ blocks = [t \in 1..Len(project) |-> <<>>]
    /\ sink = [t \in 1..Len(project) |-> <<>>]
    /\ target = 1
    /\ callable = 1
    /\ at = 1
    /\ this_id = NoId
    /\ parent_id = NoId
    /\ emit = "sprite"

\* sprite() without self.id.reset()
SpriteNoReset ==
    /\ emit = "sprite"
    /\ emit' = "callable"
    /\ UNCHANGED <<project, id, blocks, sink, target, callable, at, this_id, parent_id>>
    /\ UNCHANGED <<ppvars, namevars, assetvars>>

\* sprite(): self.id.reset(), then the callables of the target in order
Sprite ==
    /\ emit = "sprite"
    /\ id' = FirstId
    /\ emit' = "callable"
    /\ UNCHANGED <<project, blocks, sink, target, callable, at, this_id, parent_id>>
    /\ UNCHANGED <<ppvars, namevars, assetvars>>

\* sprite() returns; project() goes on to the next target
SpriteDone ==
    /\ emit = "callable"
    /\ callable > Len(project[target])
    /\ IF target < Len(project)
       THEN target' = target + 1 /\ callable' = 1 /\ emit' = "sprite"
       ELSE UNCHANGED <<target, callable>> /\ emit' = "done"
    /\ UNCHANGED <<project, id, blocks, sink, at, this_id, parent_id>>
    /\ UNCHANGED <<ppvars, namevars, assetvars>>

\* the number of argument reporters an argument of this type expands to: one
\* for a Value, one per field for a struct the sprite declares, none otherwise
Reporters(type) ==
    IF type = "Value" THEN 1
    ELSE IF type \in DOMAIN Structs THEN Len(Structs[type])
    ELSE 0

RECURSIVE ReportersOf(_)
ReportersOf(args) ==
    IF args = <<>> THEN 0 ELSE Reporters(Head(args)) + ReportersOf(Tail(args))

\* the UnrecognizedStruct diagnostics of the argument loop
RECURSIVE ArgDiagnostics(_, _)
ArgDiagnostics(args, n) ==
    IF n > Len(args) THEN <<>>
    ELSE (IF args[n] # "Value" /\ args[n] \notin DOMAIN Structs
          THEN << [kind |-> "UnrecognizedStruct", span |-> <<target, callable, -n>>] >>
          ELSE <<>>) \o ArgDiagnostics(args, n + 1)

\* the parent_id of an argument reporter of the prototype
ArgParent(definition_id, prototype_id) == prototype_id

\* the parent_id of the prototype
PrototypeParent(definition_id, prototype_id) == definition_id

\* the parent_id stmts is given for the body of a definition or hat
BodyParent(hat_id) == hat_id

\* what stmts starts with: the loop over a non-empty body, or its return
EnterStmts(body, first_id, parent) ==
    IF body = <<>>
    THEN /\ emit' = "callable"
         /\ callable' = callable + 1
         /\ UNCHANGED <<at, this_id, parent_id>>
    ELSE /\ emit' = "stmts"
         /\ at' = 1
         /\ this_id' = first_id
         /\ parent_id' = parent
         /\ UNCHANGED callable

\* proc() and func() up to their call of stmts: the definition, the argument
\* reporters, the prototype
Definition ==
    LET c == Current
        def_id == id
        prototype_id == id + 1
        next_id == id + 2
        n == ReportersOf(c.args)
        arg_ids == [k \in 1..n |-> id + 2 + k]
        definition ==
            WithInputs(TopLevel(WithNext(Node("procedures_definition", def_id, callable, 0),
                                         IF c.body # <<>> THEN next_id ELSE NoId)),
                       <<prototype_id>>)
        reporters ==
            [k \in 1..n |->
                Shadow(WithParent(Node("argument_reporter_string_number", arg_ids[k],
                                       callable, -1),
                                  ArgParent(def_id, prototype_id)))]
        prototype ==
            WithInputs(Shadow(WithParent(Node("procedures_prototype", prototype_id,
                                              callable, -1),
                                         PrototypeParent(def_id, prototype_id))),
                       arg_ids)
    IN  /\ id' = id + 3 + n
        /\ Write(<<definition>> \o reporters \o <<prototype>>)
        /\ Report(ArgDiagnostics(c.args, 1))
        /\ EnterStmts(c.body, next_id, BodyParent(def_id))

Proc ==
    /\ emit = "callable"
    /\ callable <= Len(project[target])
    /\ Current.kind = "proc"
    /\ Definition
    /\ UNCHANGED <<project, target>>
    /\ UNCHANGED <<ppvars, namevars, assetvars>>

Func ==
    /\ emit = "callable"
    /\ callable <= Len(project[target])
    /\ Current.kind = "func"
    /\ Definition
    /\ UNCHANGED <<project, target>>
    /\ UNCHANGED <<ppvars, namevars, assetvars>>

\* event() up to its call of stmts: the hat
Event ==
    /\ emit = "callable"
    /\ callable <= Len(project[target])
    /\ Current.kind = "event"
    /\ LET hat_id == id
           next_id == id + 1
           hat == TopLevel(WithNext(Node("event_whenflagclicked", hat_id, callable, 0),
                                    IF Current.body # <<>> THEN next_id ELSE NoId))
       IN  /\ id' = id + 2
           /\ Write(<<hat>>)
           /\ EnterStmts(Current.body, next_id, BodyParent(hat_id))
    /\ UNCHANGED <<project, sink, target>>
    /\ UNCHANGED <<ppvars, namevars, assetvars>>

\* is_terminator without its Stmt::Forever arm
IsTerminatorNoForever(stmt) ==
    stmt \in {"DeleteThisClone", "StopAll", "StopThisScript"}

\* Stmt::is_terminator
IsTerminator(stmt) ==
    stmt \in {"Forever", "DeleteThisClone", "StopAll", "StopThisScript"}

\* Stmt::opcode
Opcode(stmt) ==
    CASE stmt = "Forever" -> "control_forever"
      [] stmt = "SetVar" -> "data_setvariableto"
      [] stmt = "Return" -> "data_setvariableto"
      [] stmt = "Say" -> "looks_say"
      [] stmt = "StopAll" -> "control_stop"
      [] stmt = "StopThisScript" -> "control_stop"
      [] stmt = "DeleteThisClone" -> "control_delete_this_clone"

\* the reporter blocks the emitter of the statement's kind writes for its
\* arguments, each with the statement as parent
ArgumentBlocks(stmt, stmt_id, first) ==
    IF stmt = "Say"
    THEN << WithParent(Node("operator_join", first, callable, -1), stmt_id) >>
    ELSE <<>>

\* stmt(): the node of the statement, then the blocks of its arguments
StmtNodes(stmt, stmt_id, next_id, parent, first) ==
    << WithInputs(WithParent(WithNext(Node(Opcode(stmt), stmt_id, callable, at), next_id),
                             parent),
                  [k \in 1..Len(ArgumentBlocks(stmt, stmt_id, first)) |->
                      ArgumentBlocks(stmt, stmt_id, first)[k].id]) >>
    \o ArgumentBlocks(stmt, stmt_id, first)

\* a report on the statement after the terminator
UnreachableSpanNext(n) == StmtSpan(target, callable, n + 1)

\* the span FollowedByUnreachableCode is reported on, for the terminator at n:
\* stmt.span()
UnreachableSpan(n) == StmtSpan(target, callable, n)

\* a loop that leaves parent_id as it was
NextParentKept(stmt_id, parent) == parent

\* the parent_id of the statement after the one emitted as stmt_id:
\* parent_id = Some(this_id)
NextParent(stmt_id, parent) == stmt_id

\* one iteration of the loop of stmts over a statement that stmt() emits
StmtsStep ==
    /\ emit = "stmts"
    /\ LET body == Current.body
           stmt == body[at]
           is_last == at = Len(body)
       IN  /\ stmt # "Return"
           /\ IF is_last \/ IsTerminator(stmt)
              THEN LET nodes == StmtNodes(stmt, this_id, NoId, parent_id, id)
                   IN  /\ Write(nodes)
                       /\ id' = id + Len(nodes) - 1
                       /\ Report(IF ~is_last
                                 THEN << [kind |-> "FollowedByUnreachableCode",
                                          span |-> UnreachableSpan(at)] >>
                                 ELSE <<>>)
                       /\ emit' = "callable"
                       /\ callable' = callable + 1
                       /\ UNCHANGED <<at, this_id, parent_id>>
              ELSE LET next_id == id
                       nodes == StmtNodes(stmt, this_id, next_id, parent_id, id + 1)
                   IN  /\ Write(nodes)
                       /\ id' = id + Len(nodes)
                       /\ parent_id' = NextParent(this_id, parent_id)
                       /\ this_id' = next_id
                       /\ at' = at + 1
                       /\ UNCHANGED <<sink, emit, callable>>
    /\ UNCHANGED <<project, target>>
    /\ UNCHANGED <<ppvars, namevars, assetvars>>

\* one iteration over a Return: stmt() writes the node and panics
StmtsPanic ==
    /\ emit = "stmts"
    /\ LET body == Current.body
           stmt == body[at]
           is_last == at = Len(body)
           mint == IF is_last \/ IsTerminator(stmt) THEN 0 ELSE 1
       IN  /\ stmt = "Return"
           /\ id' = id + mint
           /\ Write(StmtNodes(stmt, this_id, IF mint = 1 THEN id ELSE NoId, parent_id,
                              id + mint))
    /\ emit' = "aborted"
    /\ UNCHANGED <<project, sink, target, callable, at, this_id, parent_id>>
    /\ UNCHANGED <<ppvars, namevars, assetvars>>

GenNext ==
    \/ Sprite
    \/ Proc
    \/ Func
    \/ Event
    \/ StmtsStep
    \/ StmtsPanic
    \/ SpriteDone

-----------------------------------------------------------------------------
(* The name qualifier and the declarations: the input *)

\* Option<T>
None == <<>>
Some(x) == <<x>>
OrElse(a, b) == IF a # None THEN a ELSE b

Range(f) == {f[k] : k \in DOMAIN f}

\* a Var or a List: its name, its type ("Value" or the name of a struct) and
\* the is_used flag of the upstream analysis
Var(name, type, is_used) == [name |-> name, type |-> type, is_used |-> is_used]

\* what a sprite may hold under the basename "p" as a variable, as a list and
\* as a local of a callable
VarChoices ==
    { <<>>, <<Var("p", "Value", TRUE)>>, <<Var("p", "Point", TRUE)>>,
      <<Var("p", "Value", FALSE)>> }
UsedOnly(choices) == { c \in choices : \A k \in 1..Len(c) : c[k].is_used }
ListChoices == { <<>>, <<Var("p", "Value", TRUE)>>, <<Var("p", "Point", TRUE)>> }
LocalChoices == { <<>>, <<Var("p", "Value", TRUE)>>, <<Var("p", "Point", TRUE)>> }

\* sprite.structs: type name -> field names; Point is declared or not
StructTables == { [n \in S |-> <<"x", "y">>] : S \in SUBSET {"Point"} }

\* a Proc or Func: its name and its locals
Owner(name, locals) == [name |-> name, locals |-> locals]

\* a Sprite: vars, lists, structs, its used procs and its used funcs
SpriteOf(name, vs, ls, structs, procs, funcs) ==
    [name |-> name, vars |-> vs, lists |-> ls, structs |-> structs,
     procs |-> procs, funcs |-> funcs]

\* the Stage, without callables, and a sprite with the proc foo and the func bar
Sprites ==
    { << SpriteOf("Stage", sv, sl, st, <<>>, <<>>),
         SpriteOf("Cat", cv, cl, ct, <<Owner("foo", lo)>>, <<Owner("bar", lo)>>) >> :
        sv \in UsedOnly(VarChoices), cv \in VarChoices, sl \in ListChoices, cl \in ListChoices,
        st \in StructTables, ct \in StructTables, lo \in LocalChoices }

\* a Name: basename and optional fieldname
Name(basename, fieldname) == [basename |-> basename, fieldname |-> fieldname]
Names == { Name("p", None), Name("p", Some("x")), Name("p", Some("z")), Name("u", None) }

\* how many calls of qualify_name a run follows
MaxCalls == 1

NameSpan(name) == <<"name", name.basename>> \o name.fieldname
TypeSpan(type) == <<"type", type>>

\* S: the stage (None while the Stage itself is emitted), the sprite, and the
\* proc or func whose body is emitted, if any
SOf(stage, sprite, proc, func) ==
    [stage |-> stage, sprite |-> sprite, proc |-> proc, func |-> func]

\* the S values sprite() builds for target t: per used proc, per used func,
\* and for events
Contexts(t) ==
    LET sprite == sprites[t]
        stage == IF t = 1 THEN None ELSE Some(sprites[1])
    IN  { SOf(stage, sprite, Some(sprite.procs[k]), None) : k \in 1..Len(sprite.procs) }
        \cup { SOf(stage, sprite, None, Some(sprite.funcs[k])) : k \in 1..Len(sprite.funcs) }
        \cup { SOf(stage, sprite, None, None) }

-----------------------------------------------------------------------------
(* qualify_local_var_name, qualify_struct_var_name, S::qualify_field,
   S::qualify_name *)

\* format!("{}:{}", proc_name, var_name)
QualifyLocalVarName(proc_name, var_name) == proc_name \o ":" \o var_name

\* format!("{}.{}", field_name, var_name): the field before the variable
QualifyStructVarNameFieldFirst(field_name, var_name) == field_name \o "." \o var_name

\* format!("{}.{}", var_name, field_name)
QualifyStructVarName(field_name, var_name) == var_name \o "." \o field_name

\* HashMap::get by name
Find(vs, n) == SelectSeq(vs, LAMBDA v : v.name = n)

FromStage(s, field, n) == IF s.stage # None THEN Find(s.stage[1][field], n) ELSE None

\* S::get_list, S::get_local_var, S::get_var
GetList(s, n) == OrElse(Find(s.sprite.lists, n), FromStage(s, "lists", n))
GetLocalVar(s, n) ==
    OrElse(IF s.proc # None THEN Find(s.proc[1].locals, n) ELSE None,
           IF s.func # None THEN Find(s.func[1].locals, n) ELSE None)
GetVar(s, n) == OrElse(Find(s.sprite.vars, n), FromStage(s, "vars", n))

\* S::get_struct
GetStruct(s, n) ==
    IF n \in DOMAIN s.sprite.structs THEN Some(s.sprite.structs[n])
    ELSE IF s.stage # None /\ n \in DOMAIN s.stage[1].structs
         THEN Some(s.stage[1].structs[n])
         ELSE None

Diag(kind, span) == [kind |-> kind, span |-> span]

\* QualifiedName::Var(key, type), QualifiedName::List(key, type)
Qualified(variant, key, type) == [variant |-> variant, key |-> key, type |-> type]

\* what a call gives: the Option returned, the diagnostics reported to d, and
\* whether a line went to stderr
Outcome(result, reported, stderr) ==
    [result |-> result, reported |-> reported, stderr |-> stderr]

\* a struct type without a field name: eprintln!, None
WithoutFieldName(span) == Outcome(None, <<>>, TRUE)

\* S::qualify_field
QualifyField(s, span, qualified_var_name, field_name, type_, variant) ==
    IF type_ = "Value"
    THEN IF field_name = None
         THEN Outcome(Some(Qualified(variant, qualified_var_name, type_)), <<>>, FALSE)
         ELSE Outcome(None, <<Diag("NotStruct", span)>>, FALSE)
    ELSE IF field_name = None
         THEN WithoutFieldName(span)
         ELSE LET struct_ == GetStruct(s, type_)
              IN  IF struct_ = None
                  THEN Outcome(None, <<>>, FALSE)
                  ELSE IF field_name[1] \notin Range(struct_[1])
                  THEN Outcome(None, <<Diag("StructDoesNotHaveField", TypeSpan(type_))>>,
                               FALSE)
                  ELSE Outcome(Some(Qualified(variant,
                                              QualifyStructVarName(field_name[1],
                                                                   qualified_var_name),
                                              type_)),
                               <<>>, FALSE)

\* the name of the callable a local is prefixed with
OwnerName(s) == IF s.proc # None THEN s.proc[1].name ELSE s.func[1].name

\* what a binding is found as: the entity, the namespace it was found in, the
\* variant and the name qualify_field is given
Bound(var, space, variant, qualified_var_name) ==
    [var |-> var, space |-> space, variant |-> variant,
     qualified_var_name |-> qualified_var_name]

\* a chain that asks for the local before the list
BindingLocalFirst(s, basename) ==
    IF GetLocalVar(s, basename) # None
    THEN LET var == GetLocalVar(s, basename)[1]
         IN  Some(Bound(var, "local", "Var", QualifyLocalVarName(OwnerName(s), var.name)))
    ELSE IF GetList(s, basename) # None
    THEN Some(Bound(GetList(s, basename)[1], "list", "List", GetList(s, basename)[1].name))
    ELSE IF GetVar(s, basename) # None
    THEN Some(Bound(GetVar(s, basename)[1], "var", "Var", GetVar(s, basename)[1].name))
    ELSE None

\* the chain of `if let` of qualify_name: list, local, variable
Binding(s, basename) ==
    IF GetList(s, basename) # None
    THEN Some(Bound(GetList(s, basename)[1], "list", "List", GetList(s, basename)[1].name))
    ELSE IF GetLocalVar(s, basename) # None
    THEN LET var == GetLocalVar(s, basename)[1]
         IN  Some(Bound(var, "local", "Var", QualifyLocalVarName(OwnerName(s), var.name)))
    ELSE IF GetVar(s, basename) # None
    THEN Some(Bound(GetVar(s, basename)[1], "var", "Var", GetVar(s, basename)[1].name))
    ELSE None

\* S::qualify_name
QualifyName(s, name) ==
    LET b == Binding(s, name.basename)
    IN  IF b # None
        THEN QualifyField(s, NameSpan(name), b[1].qualified_var_name, name.fieldname,
                          b[1].var.type, b[1].variant)
        ELSE Outcome(None, <<Diag("UnrecognizedVariable", NameSpan(name))>>, FALSE)

-----------------------------------------------------------------------------
(* Sb3::sprite: the "variables" and "lists" maps; the calls of qualify_name *)

Declaration(kind, owner, var) == [kind |-> kind, owner |-> owner, var |-> var]

\* .filter(|var| var.is_used)
Used(vs) == SelectSeq(vs, LAMBDA v : v.is_used)

\* the declarations sprite() makes for a sprite, in its order: the locals of
\* the used procs, of the used funcs, the used vars, the used lists
RECURSIVE LocalsOf(_)
LocalsOf(owners) ==
    IF owners = <<>> THEN <<>>
    ELSE [k \in 1..Len(Head(owners).locals) |->
             Declaration("local", Head(owners).name, Head(owners).locals[k])]
         \o LocalsOf(Tail(owners))

DeclarationsOf(sprite) ==
    LocalsOf(sprite.procs) \o LocalsOf(sprite.funcs)
    \o [k \in 1..Len(Used(sprite.vars)) |-> Declaration("var", "", Used(sprite.vars)[k])]
    \o [k \in 1..Len(Used(sprite.lists)) |-> Declaration("list", "", Used(sprite.lists)[k])]

\* the UnrecognizedStruct report of a declaration
DeclDiagnostics(sprite, var) ==
    IF var.type # "Value" /\ var.type \notin DOMAIN sprite.structs
    THEN << Diag("UnrecognizedStruct", TypeSpan(var.type)) >>
    ELSE <<>>

\* the keys var_declaration writes
VarKeys(sprite, var) ==
    IF var.type = "Value" THEN {var.name}
    ELSE IF var.type \in DOMAIN sprite.structs
    THEN { QualifyStructVarName(f, var.name) : f \in Range(sprite.structs[var.type]) }
    ELSE {}

\* the keys local_var_declaration writes
LocalVarKeys(sprite, proc_name, var) ==
    IF var.type = "Value" THEN {QualifyLocalVarName(proc_name, var.name)}
    ELSE IF var.type \in DOMAIN sprite.structs
    THEN { QualifyLocalVarName(proc_name, QualifyStructVarName(f, var.name)) :
             f \in Range(sprite.structs[var.type]) }
    ELSE {}

\* the keys list_declaration writes
ListKeys(sprite, list) ==
    IF list.type = "Value" THEN {list.name}
    ELSE IF list.type \in DOMAIN sprite.structs
    THEN { QualifyStructVarName(f, list.name) : f \in Range(sprite.structs[list.type]) }
    ELSE {}

NameInit ==
    /\ sprites \in Sprites
    /\ variables = [t \in 1..Len(sprites) |-> {}]
    /\ lists = [t \in 1..Len(sprites) |-> {}]
    /\ nsink = [t \in 1..Len(sprites) |-> <<>>]
    /\ ntarget = 1
    /\ todo = <<>>
    /\ resolved = <<>>
    /\ nphase = "sprite"

\* sprite() up to the "variables" map
NameSprite ==
    /\ nphase = "sprite"
    /\ todo' = DeclarationsOf(sprites[ntarget])
    /\ nphase' = "target"
    /\ UNCHANGED <<sprites, variables, lists, nsink, ntarget, resolved>>
    /\ UNCHANGED <<ppvars, genvars, assetvars>>

LocalVarDeclaration ==
    /\ nphase = "target"
    /\ todo # <<>>
    /\ Head(todo).kind = "local"
    /\ variables' = [variables EXCEPT ![ntarget] =
                        @ \cup LocalVarKeys(sprites[ntarget], Head(todo).owner, Head(todo).var)]
    /\ nsink' = [nsink EXCEPT ![ntarget] = @ \o DeclDiagnostics(sprites[ntarget], Head(todo).var)]
    /\ todo' = Tail(todo)
    /\ UNCHANGED <<sprites, lists, ntarget, resolved, nphase>>
    /\ UNCHANGED <<ppvars, genvars, assetvars>>

VarDeclaration ==
    /\ nphase = "target"
    /\ todo # <<>>
    /\ Head(todo).kind = "var"
    /\ variables' = [variables EXCEPT ![ntarget] =
                        @ \cup VarKeys(sprites[ntarget], Head(todo).var)]
    /\ nsink' = [nsink EXCEPT ![ntarget] = @ \o DeclDiagnostics(sprites[ntarget], Head(todo).var)]
    /\ todo' = Tail(todo)
    /\ UNCHANGED <<sprites, lists, ntarget, resolved, nphase>>
    /\ UNCHANGED <<ppvars, genvars, assetvars>>

ListDeclaration ==
    /\ nphase = "target"
    /\ todo # <<>>
    /\ Head(todo).kind = "list"
    /\ lists' = [lists EXCEPT ![ntarget] = @ \cup ListKeys(sprites[ntarget], Head(todo).var)]
    /\ nsink' = [nsink EXCEPT ![ntarget] = @ \o DeclDiagnostics(sprites[ntarget], Head(todo).var)]
    /\ todo' = Tail(todo)
    /\ UNCHANGED <<sprites, variables, ntarget, resolved, nphase>>
    /\ UNCHANGED <<ppvars, genvars, assetvars>>

\* the names the blocks of a target refer to: the upstream analysis has
\* flagged as used the variable or list a name is bound to
Referenced(s, name) ==
    Binding(s, name.basename) # None => Binding(s, name.basename)[1].var.is_used

\* a call of qualify_name while the blocks of the target are written
QualifyNameCall ==
    /\ nphase = "target"
    /\ todo = <<>>
    /\ Len(resolved) < MaxCalls
    /\ \E s \in Contexts(ntarget), name \in Names :
        /\ Referenced(s, name)
        /\ resolved' = Append(resolved, [s |-> s, name |-> name, target |-> ntarget,
                                         outcome |-> QualifyName(s, name)])
        /\ nsink' = [nsink EXCEPT ![ntarget] = @ \o QualifyName(s, name).reported]
    /\ UNCHANGED <<sprites, variables, lists, ntarget, todo, nphase>>
    /\ UNCHANGED <<ppvars, genvars, assetvars>>

\* sprite() returns; project() goes on to the next target
NameSpriteDone ==
    /\ nphase = "target"
    /\ todo = <<>>
    /\ IF ntarget < Len(sprites)
       THEN ntarget' = ntarget + 1 /\ nphase' = "sprite"
       ELSE UNCHANGED ntarget /\ nphase' = "done"
    /\ UNCHANGED <<sprites, variables, lists, nsink, todo, resolved>>
    /\ UNCHANGED <<ppvars, genvars, assetvars>>

NameNext ==
    \/ NameSprite
    \/ LocalVarDeclaration
    \/ VarDeclaration
    \/ ListDeclaration
    \/ QualifyNameCall
    \/ NameSpriteDone

-----------------------------------------------------------------------------
(* The asset registry: the input *)

MaxCostumes == 2

\* the files below the input directory: path -> what File::open and a read
\* give. a.jpg and b.jpeg hold the same bytes; n has no extension; r.png
\* opens but cannot be read (a directory); m.png does not exist
File(kind, content) == [kind |-> kind, content |-> content]

P_a == <<"a", DOT, "j", "p", "g">>
P_b == <<"b", DOT, "j", "p", "e", "g">>
P_c == <<"c", DOT, "p", "n", "g">>
P_n == <<"n">>
P_r == <<"r", DOT, "p", "n", "g">>
P_m == <<"m", DOT, "p", "n", "g">>

CostumeFiles ==
    (P_a :> File("file", "X")) @@ (P_b :> File("file", "X"))
    @@ (P_c :> File("file", "Y")) @@ (P_n :> File("file", "Z"))
    @@ (P_r :> File("unreadable", ""))

CostumePaths == DOMAIN CostumeFiles \cup {P_m}

\* a Costume: name, path, span
CostumeOf(name, path, span) == [name |-> name, path |-> path, span |-> span]

CostumeSeqs(t, max) ==
    { [k \in 1..Len(ps) |-> CostumeOf(<<"c", t, k>>, ps[k], <<"costume", t, k>>)] :
        ps \in UNION { [1..n -> CostumePaths] : n \in 0..max } }

\* the costumes of the Stage and of one sprite
CostumeInputs ==
    { <<st, sp>> : st \in CostumeSeqs(1, 1), sp \in CostumeSeqs(2, MaxCostumes) }

-----------------------------------------------------------------------------
(* Sb3::costume, Sb3::costume_entry, Sb3::assets *)

\* format!("{:x}", hasher.finalize()): the digest of the bytes read, which
\* differs for different bytes and holds no '.'
Md5Hex(content) == <<"md5", content>>

\* SmolStr::default()
EmptyHash == <<>>

\* str::rsplit_once('.')
RSplitOnce(p) ==
    LET dots == {n \in 1..Len(p) : p[n] = DOT}
    IN  IF dots = {} THEN None
        ELSE Some(<< SubSeq(p, 1, SetMax(dots) - 1), SubSeq(p, SetMax(dots) + 1, Len(p)) >>)

\* rsplit_once('.').unwrap_or_default(): the extension, "" without a '.'
ExtensionOrDefault(p) == IF RSplitOnce(p) = None THEN <<>> ELSE RSplitOnce(p)[1][2]

\* format!("{hash}.{extension}")
HashDotExtension(hash, extension) == hash \o <<DOT>> \o extension

\* costume_entry
CostumeEntry(name, hash, extension) ==
    [name |-> name, assetId |-> hash, dataFormat |-> extension,
     bitmap |-> extension \in {<<"p", "n", "g">>, <<"b", "m", "p">>},
     md5ext |-> HashDotExtension(hash, extension)]

AssetInit ==
    /\ costume_in \in CostumeInputs
    /\ costumes = [p \in {} |-> EmptyHash]
    /\ entries = [t \in 1..Len(costume_in) |-> <<>>]
    /\ zip = <<>>
    /\ added = {}
    /\ visited = {}
    /\ asink = [t \in 1..Len(costume_in) |-> <<>>]
    /\ opens = <<>>
    /\ atarget = 1
    /\ acostume = 1
    /\ aphase = "sprite"

\* sprite() up to the loop over the costumes
SpriteCostumes ==
    /\ aphase = "sprite"
    /\ asink' = [asink EXCEPT ![atarget] =
                    @ \o (IF costume_in[atarget] = <<>>
                          THEN << Diag("NoCostumes", <<"none">>) >> ELSE <<>>)]
    /\ acostume' = 1
    /\ aphase' = "costumes"
    /\ UNCHANGED <<costume_in, costumes, entries, zip, added, visited, opens, atarget>>
    /\ UNCHANGED <<ppvars, genvars, namevars>>

\* self.costumes.insert(path, hash), called for a path the registry lacks
Register(registry, path, hash) == registry @@ (path :> hash)

\* a lookup that never finds the path
MemoisedNever(path) == FALSE

\* whether costume() finds the hash in the registry: self.costumes.get(&path)
Memoised(path) == path \in DOMAIN costumes

\* File::open fails and the error leaves costume() as its result
CostumeOpenErrorReturned(c, extension) ==
    /\ aphase' = "io_error"
    /\ UNCHANGED <<costumes, entries, asink, acostume>>

\* File::open fails: the error is reported on the span of the costume and the
\* hash is Default::default(); the entry is written with it
CostumeOpenError(c, extension) ==
    /\ asink' = [asink EXCEPT ![atarget] = Append(@, Diag("IOError", c.span))]
    /\ entries' = [entries EXCEPT ![atarget] =
                      Append(@, CostumeEntry(c.name, EmptyHash, extension))]
    /\ acostume' = acostume + 1
    /\ UNCHANGED <<costumes, aphase>>

\* costume(): one costume of the target
Costume ==
    /\ aphase = "costumes"
    /\ acostume <= Len(costume_in[atarget])
    /\ LET c == costume_in[atarget][acostume]
           extension == ExtensionOrDefault(c.path)
           Entry(hash) ==
               /\ entries' = [entries EXCEPT ![atarget] =
                                 Append(@, CostumeEntry(c.name, hash, extension))]
               /\ acostume' = acostume + 1
               /\ UNCHANGED aphase
       IN  IF Memoised(c.path)
           THEN /\ Entry(costumes[c.path])
                /\ UNCHANGED <<costumes, asink, opens>>
           ELSE /\ opens' = Append(opens, c.path)
                /\ IF c.path \notin DOMAIN CostumeFiles
                   THEN CostumeOpenError(c, extension)
                   ELSE IF CostumeFiles[c.path].kind = "unreadable"
                   THEN /\ aphase' = "io_error"
                        /\ UNCHANGED <<costumes, entries, asink, acostume>>
                   ELSE /\ costumes' = Register(costumes, c.path,
                                                Md5Hex(CostumeFiles[c.path].content))
                        /\ Entry(Md5Hex(CostumeFiles[c.path].content))
                        /\ UNCHANGED asink
    /\ UNCHANGED <<costume_in, zip, added, visited, atarget>>
    /\ UNCHANGED <<ppvars, genvars, namevars>>

\* the loop over the costumes ends: sprite() returns, and project() goes on
\* to the next target or to assets()
SpriteCostumesDone ==
    /\ aphase = "costumes"
    /\ acostume > Len(costume_in[atarget])
    /\ IF atarget < Len(costume_in)
       THEN atarget' = atarget + 1 /\ aphase' = "sprite"
       ELSE UNCHANGED atarget /\ aphase' = "assets"
    /\ UNCHANGED <<costume_in, costumes, entries, zip, added, visited, asink, opens, acostume>>
    /\ UNCHANGED <<ppvars, genvars, namevars>>

\* an archive entry: its name and the bytes copied into it
ZipEntry(name, content) == [name |-> name, content |-> content]

\* what `added` is asked: added.contains(hash)
AddedKey(path, hash) == hash

\* assets(): one iteration of the loop over the registry, in the order of the
\* hash map, which is any
AssetsStep ==
    /\ aphase = "assets"
    /\ \E path \in DOMAIN costumes \ visited :
        LET hash == costumes[path]
        IN  /\ visited' = visited \cup {path}
            /\ IF AddedKey(path, hash) \in added
               THEN UNCHANGED <<added, zip, aphase>>
               ELSE /\ added' = added \cup {AddedKey(path, hash)}
                    /\ IF RSplitOnce(path) = None
                       THEN aphase' = "aborted" /\ UNCHANGED zip
                       ELSE /\ zip' = Append(zip,
                                         ZipEntry(HashDotExtension(hash, RSplitOnce(path)[1][2]),
                                                  CostumeFiles[path].content))
                            /\ UNCHANGED aphase
    /\ UNCHANGED <<costume_in, costumes, entries, asink, opens, atarget, acostume>>
    /\ UNCHANGED <<ppvars, genvars, namevars>>

\* the loop of assets() ends; project() returns Ok(())
AssetsDone ==
    /\ aphase = "assets"
    /\ visited = DOMAIN costumes
    /\ aphase' = "done"
    /\ UNCHANGED <<costume_in, costumes, entries, zip, added, visited, asink, opens,
                   atarget, acostume>>
    /\ UNCHANGED <<ppvars, genvars, namevars>>

AssetNext ==
    \/ SpriteCostumes
    \/ Costume
    \/ SpriteCostumesDone
    \/ AssetsStep
    \/ AssetsDone

-----------------------------------------------------------------------------
(* The specifications *)

\* the preprocessor at rest
PPIdle ==
    /\ root = <<>>
    /\ text = <<>>
    /\ defines = {}
    /\ includes = << NewInclude(0, 0, 0, 0, RootPath) >>
    /\ included = {}
    /\ current_include = 0
    /\ diagnostics = <<>>
    /\ comment = 0
    /\ i = 0
    /\ pc = "done"
    /\ origin = <<>>
    /\ region = NoRegion
    /\ calls = <<>>

\* the emitter at rest
GenIdle ==
    /\ project = <<>>
    /\ id = FirstId
    /\ blocks = <<>>
    /\ sink = <<>>
    /\ target = 1
    /\ callable = 1
    /\ at = 1
    /\ this_id = NoId
    /\ parent_id = NoId
    /\ emit = "done"

\* the declarations and the name qualifier at rest
NameIdle ==
    /\ sprites = <<>>
    /\ variables = <<>>
    /\ lists = <<>>
    /\ nsink = <<>>
    /\ ntarget = 1
    /\ todo = <<>>
    /\ resolved = <<>>
    /\ nphase = "done"

\* the asset registry at rest
AssetIdle ==
    /\ costume_in = <<>>
    /\ costumes = [p \in {} |-> EmptyHash]
    /\ entries = <<>>
    /\ zip = <<>>
    /\ added = {}
    /\ visited = {}
    /\ asink = <<>>
    /\ opens = <<>>
    /\ atarget = 1
    /\ acostume = 1
    /\ aphase = "done"

\* pre_process on a root file
Init == PPInit /\ GenIdle /\ NameIdle /\ AssetIdle
Next == PPNext
Spec == Init /\ [][Next]_vars

\* pre_process as a loop that goes on while it can: parse runs its loop to
\* the end, no iteration waits for anything
LiveInit == PPInitFrom(LiveRootContents) /\ GenIdle /\ NameIdle /\ AssetIdle
LiveSpec == LiveInit /\ [][Next]_vars /\ WF_vars(Next)

\* project() on a Project
EmitInit == GenInit /\ PPIdle /\ NameIdle /\ AssetIdle
EmitNext == GenNext
EmitSpec == EmitInit /\ [][EmitNext]_vars

\* the "variables" and "lists" maps of the targets and the names their blocks
\* refer to
NamesInit == NameInit /\ PPIdle /\ GenIdle /\ AssetIdle
NamesNext == NameNext
NameSpec == NamesInit /\ [][NamesNext]_vars

\* the costumes of the targets and the assets of the archive
AssetsInit == AssetInit /\ PPIdle /\ GenIdle /\ NameIdle
AssetsNext == AssetNext
AssetSpec == AssetsInit /\ [][AssetsNext]_vars

-----------------------------------------------------------------------------
(* Properties of the preprocessor *)

Done == pc = "done"

Positions == 0..(Len(text) - 1)

RECURSIVE SumLen(_)
SumLen(incs) ==
    IF incs = <<>> THEN 0
    ELSE RLen(Head(incs).us, Head(incs).ue) + SumLen(Tail(incs))

NonOverlapping ==
    \A j, k \in 1..Len(includes) :
        j < k => \A p \in Positions : ~(Contains(includes[j], p) /\ Contains(includes[k], p))

CoversBuffer ==
    /\ \A p \in Positions : \E k \in 1..Len(includes) : Contains(includes[k], p)
    /\ \A k \in 1..Len(includes) :
        /\ includes[k].us <= includes[k].ue
        /\ includes[k].ue <= Len(text)

\* C1: after pre_process the unit_ranges of the include table are pairwise
\* non-overlapping, cover exactly [0, buffer length), and their lengths sum
\* to the buffer length.
C1_UnitRangesPartitionBuffer ==
    Done => /\ NonOverlapping
            /\ CoversBuffer
            /\ SumLen(includes) = Len(text)

\* C2: after pre_process, for every position p of the buffer,
\* translate_position(p) returns without panicking (with or without debug
\* assertions) an offset smaller than the length of the file it names, and the
\* byte at p was read from that file at that offset.
C2_TranslatePositionExact ==
    Done => \A p \in Positions :
                /\ \A debug \in BOOLEAN : ~Panics(p, debug)
                /\ TranslatePosition(p).offset < Len(fs[TranslatePosition(p).path])
                /\ TranslatePosition(p) = [offset |-> OriginOffset(At(origin, p)),
                                           path |-> OriginPath(At(origin, p))]

\* the lines of a file
RECURSIVE SplitLines(_)
SplitLines(t) ==
    IF t = <<>> THEN <<>>
    ELSE LET n == LineLen(t, 0)
         IN  <<SubSeq(t, 1, n)>> \o SplitLines(SubSeq(t, n + 2, Len(t)))

IsIncludeLine(l) == StartsWith(l, 0, <<PCT>> \o W_include)

\* the file an %include line of a file in the root directory names
LineTarget(l) == OpenPath(Trim(SubSeq(l, 2 + Len(W_include), Len(l))))

\* file f is plain text except for %include lines, at least one, that all name g
IncludesOnly(f, g) ==
    LET ls == SplitLines(fs[f])
    IN  /\ \E n \in 1..Len(ls) : IsIncludeLine(ls[n])
        /\ \A n \in 1..Len(ls) :
            IF IsIncludeLine(ls[n]) THEN LineTarget(ls[n]) = g
            ELSE ~StartsWith(ls[n], 0, <<PCT>>)

\* the root file includes g and g includes the root file
IncludeCycle ==
    \E g \in DOMAIN fs \ {RootPath} :
        IncludesOnly(RootPath, g) /\ IncludesOnly(g, RootPath)

\* how many times the first byte of file f is in the buffer
Occurrences(f) ==
    Cardinality({p \in Positions : At(origin, p) = <<FileNo(f), 0>>})

\* C3: when the root file includes b and b includes the root file, pre_process
\* finishes without an error and the content of the root file is in the buffer
\* exactly once.
C3_CycleRootOnce ==
    Done /\ IncludeCycle => Result = "Ok" /\ Occurrences(RootPath) = 1

CallsOf(path) == {k \in 1..Len(calls) : calls[k].path = path}

\* the first live %include of a path calls include, which splices the file in
\* if it can be opened; every later one is skipped
FirstCallOnly ==
    \A path \in {calls[k].path : k \in 1..Len(calls)} :
        LET first == SetMin(CallsOf(path))
        IN  /\ calls[first].outcome # "skipped"
            /\ IsFile(calls[first].opened) => calls[first].outcome = "spliced"
            /\ \A k \in CallsOf(path) \ {first} : calls[k].outcome = "skipped"

\* the path of the live %include directive at i
PendingPath ==
    LET j2 == LiveBegin + Len(W_include)
    IN  Trim(Slice(text, j2, LineLen(text, j2)))

\* C4: a path reached by more than one live %include is spliced in exactly
\* once, by the first of them; every later %include of it is skipped without
\* a diagnostic and without a change of the buffer length or the include table.
C4_IncludeOnce ==
    /\ []FirstCallOnly
    /\ [][Live("include") /\ PendingPath \in included
            => /\ Len(text') = Len(text)
               /\ includes' = includes
               /\ current_include' = current_include
               /\ diagnostics' = diagnostics]_vars

\* a path whose file was spliced in has been met again and skipped
C4_Witness ==
    \E j, k \in 1..Len(calls) :
        /\ j < k
        /\ calls[j].path = calls[k].path
        /\ calls[j].outcome = "spliced"
        /\ calls[k].outcome = "skipped"

\* C5: the neutralisation that a false %if starts ends exactly at its matching
\* %endif: the depth is positive up to the offset where that %endif is
\* recognised, and 0 from there on.
C5_RegionEndsAtMatchingEndif ==
    region.end >= 0 => (i < region.end <=> comment > 0)

\* the directive word of the line that begins at offset j: the bytes up to
\* the first blank or line end
WordAt(j) ==
    LET stops == {n \in j..(Len(text) - 1) : At(text, n) \in {SP, NL, CR}}
    IN  Slice(text, j, (IF stops = {} THEN Len(text) ELSE SetMin(stops)) - j)

KnownWords == {W_include, W_define, W_undef, W_if, W_endif}

\* C6: a live line that begins with % and whose directive word is none of
\* include, define, undef, if, endif is passed through: no byte is rewritten
\* and the define set, the include table and the depth stay as they were.
C6_UnknownDirectiveUntouched ==
    [][Looping /\ comment = 0 /\ LiveBegin >= 0 /\ WordAt(LiveBegin) \notin KnownWords
         => /\ text' = text
            /\ defines' = defines
            /\ includes' = includes
            /\ comment' = comment]_vars

\* C7: the file opened for an %include is the path of the directive resolved
\* against the directory of the file that contains the directive.
C7_IncludeRelativeToContainingFile ==
    \A k \in 1..Len(calls) :
        calls[k].outcome # "skipped"
            => calls[k].opened = Resolve(Parent(calls[k].from), calls[k].path)


-----------------------------------------------------------------------------
(* Properties of the block emitter *)

\* callable c of target t has been emitted to its end
Emitted(t, c) ==
    /\ t \in 1..Len(project)
    /\ c \in 1..Len(project[t])
    /\ \/ t < target
       \/ t = target /\ c < callable

EmittedCallables ==
    { tc \in UNION { {<<t, c>> : c \in 1..Len(project[t])} : t \in 1..Len(project) } :
        Emitted(tc[1], tc[2]) }

\* the nodes of target t written for statement n of callable c (0: its hat)
NodesFor(t, c, n) == {k \in 1..Len(blocks[t]) : blocks[t][k].of = <<c, n>>}
NodeFor(t, c, n) == blocks[t][CHOOSE k \in NodesFor(t, c, n) : TRUE]

\* the node of target t with the given id
HasNode(t, nid) == \E k \in 1..Len(blocks[t]) : blocks[t][k].id = nid
NodeById(t, nid) == blocks[t][CHOOSE k \in 1..Len(blocks[t]) : blocks[t][k].id = nid]

Terminators == {"Forever", "StopAll", "StopThisScript", "DeleteThisClone"}

\* the index of the first terminator of a list, 0 if it has none
FirstTerminator(body) ==
    LET ts == {n \in 1..Len(body) : body[n] \in Terminators}
    IN  IF ts = {} THEN 0 ELSE SetMin(ts)

\* the index of the last statement of the list that is to be emitted
LastEmitted(body) ==
    IF FirstTerminator(body) = 0 THEN Len(body) ELSE FirstTerminator(body)

NextLinks(t, c) ==
    LET body == project[t][c].body
        last == LastEmitted(body)
    IN  /\ \A n \in 1..Len(body) :
            Cardinality(NodesFor(t, c, n)) = IF n <= last THEN 1 ELSE 0
        /\ \A n \in 1..(last - 1) : NodeFor(t, c, n).next = NodeFor(t, c, n + 1).id
        /\ last >= 1 => NodeFor(t, c, last).next = NoId
        /\ Cardinality(NodesFor(t, c, 0)) = 1
        /\ NodeFor(t, c, 0).next = IF body # <<>> THEN NodeFor(t, c, 1).id ELSE NoId
        /\ \A k \in 1..Len(blocks[t]) :
            blocks[t][k].of[1] = c /\ blocks[t][k].next # NoId
                => HasNode(t, blocks[t][k].next)

\* C8: of every statement list exactly the prefix up to and including its
\* first terminator is emitted (the whole list if it has none); each emitted
\* statement but the last has the id of the next one as next_id and the last
\* has none; a hat or definition has a next_id exactly when its body is not
\* empty, the id of the first statement; every next_id names a block of the
\* same target.
C8_NextLinks ==
    \A tc \in EmittedCallables : NextLinks(tc[1], tc[2])

\* a list whose terminator is its second statement and is followed by a third
C8_Witness ==
    \E tc \in EmittedCallables :
        /\ FirstTerminator(project[tc[1]][tc[2]].body) = 2
        /\ Len(project[tc[1]][tc[2]].body) = 3

\* the FollowedByUnreachableCode diagnostics reported for callable c of target t
Unreachable(t, c) ==
    {k \in 1..Len(sink[t]) :
        /\ sink[t][k].kind = "FollowedByUnreachableCode"
        /\ sink[t][k].span[2] = c}

\* a statement follows the first terminator of the list
TerminatorFollowed(body) ==
    FirstTerminator(body) # 0 /\ FirstTerminator(body) < Len(body)

ParentLinks(t, c) ==
    LET body == project[t][c].body
        hat == NodeFor(t, c, 0)
    IN  /\ \A k \in 1..Len(blocks[t]) :
            blocks[t][k].of[1] = c /\ ~blocks[t][k].top
                => /\ blocks[t][k].parent # NoId
                   /\ HasNode(t, blocks[t][k].parent)
        /\ hat.top
        /\ hat.opcode = "procedures_definition"
            => /\ Len(hat.inputs) = 1
               /\ HasNode(t, hat.inputs[1])
               /\ NodeById(t, hat.inputs[1]).opcode = "procedures_prototype"
               /\ NodeById(t, hat.inputs[1]).parent = hat.id
               /\ Len(NodeById(t, hat.inputs[1]).inputs) = ReportersOf(project[t][c].args)
               /\ \A a \in 1..Len(NodeById(t, hat.inputs[1]).inputs) :
                    LET arg_id == NodeById(t, hat.inputs[1]).inputs[a]
                    IN  /\ HasNode(t, arg_id)
                        /\ NodeById(t, arg_id).opcode = "argument_reporter_string_number"
                        /\ NodeById(t, arg_id).parent = hat.inputs[1]
        /\ \A n \in 1..LastEmitted(body) :
            NodeFor(t, c, n).parent = NodeFor(t, c, n - 1).id

\* C10: every block that is not top-level has a parent_id that names a block
\* of the same target; the prototype named by a definition's custom_block
\* input has the definition as parent, each argument reporter named in the
\* prototype's inputs has the prototype as parent, the first statement of a
\* body has the hat or definition as parent and each later statement the
\* statement emitted before it.
C10_ParentLinks ==
    \A tc \in EmittedCallables : ParentLinks(tc[1], tc[2])

\* a definition with a struct argument and a body of three emitted statements
C10_Witness ==
    \E tc \in EmittedCallables :
        /\ project[tc[1]][tc[2]].kind = "func"
        /\ "Point" \in {project[tc[1]][tc[2]].args[a] :
                            a \in 1..Len(project[tc[1]][tc[2]].args)}
        /\ LastEmitted(project[tc[1]][tc[2]].body) = 3
        /\ emit = "done"


\* C14: every include record covers as many bytes of the unit as of its
\* source file, unit_range.len() = source_range.len(), in the table of new()
\* and after every splice, so the assertion of translate_position holds for
\* every record it visits.
C14_RangeLengthsEqual ==
    \A k \in 1..Len(includes) :
        RLen(includes[k].us, includes[k].ue) = RLen(includes[k].ss, includes[k].se)

\* three files are spliced in, and the record after the current one has moved
C14_Witness ==
    /\ Len(includes) >= 7
    /\ current_include = 3
    /\ \E k \in 1..Len(includes) :
          includes[k].ue > includes[k].us /\ includes[k].us - includes[k].ss > 0
             /\ includes[k].path = RootPath


\* no path string has been spliced in by more than one call of include()
SplicedOnce ==
    \A path \in {calls[k].path : k \in 1..Len(calls)} :
        Cardinality({k \in CallsOf(path) : calls[k].outcome = "spliced"}) <= 1

\* C21: pre_process terminates, also when files include each other or
\* themselves: parse reaches its end, every iteration of its loop leaves the
\* scan offset greater than it found it, the step back after an include
\* included, and no path string is spliced in more than once.
C21_Terminates ==
    /\ <>Done
    /\ [][Looping => i' > i]_vars
    /\ []SplicedOnce

\* parse has ended for a root file that includes itself: the file was spliced
\* in once, and the %include a of the spliced copy was skipped
C21_Witness ==
    /\ Done
    /\ \E j, k \in 1..Len(calls) :
          /\ j < k
          /\ calls[j].opened = RootPath /\ calls[j].from = RootPath
          /\ calls[j].outcome = "spliced"
          /\ calls[k].path = calls[j].path /\ calls[k].outcome = "skipped"


\* the live %include at i calls include() and its file cannot be opened
PendingFails ==
    /\ Live("include")
    /\ ~AlreadyIncluded(PendingPath)
    /\ ~IsFile(OpenPath(PendingPath))

\* the span of the path of the live %include at i: from the end of the word
\* to the end of the line
PendingSpan ==
    LET j2 == LiveBegin + Len(W_include)
    IN  <<j2, j2 + LineLen(text, j2)>>

\* the calls of include() that have failed
Failed == { k \in 1..Len(calls) : calls[k].outcome = "failed" }


\* the splice offset include() is called with for the live %include at i
PendingBegin ==
    LET j2 == LiveBegin + Len(W_include)
    IN  SkipNL(text, SkipCR(text, j2 + LineLen(text, j2)))

\* C20 as claimed: whenever include() is called, for a live %include of a
\* path not included before, the record includes[current_include] is the one
\* whose unit_range holds the splice offset: start <= begin <= end.
C20_CurrentIncludeHoldsBegin ==
    Live("include") /\ ~AlreadyIncluded(PendingPath) =>
        /\ includes[current_include + 1].us <= PendingBegin
        /\ PendingBegin <= includes[current_include + 1].ue


\* C23: an %include whose file cannot be opened adds one IOError on the span
\* of the path and leaves the length of the buffer, the include table and
\* current_include as they are; the path is recorded as included, the scan
\* goes on behind the line so that a directive in the next line is live, and
\* parse returns Err exactly when an include has failed, with one diagnostic
\* per failed include.
C23_FailedInclude ==
    /\ [][PendingFails =>
            /\ diagnostics' = Append(diagnostics,
                                     [kind |-> "IOError", span |-> PendingSpan])
            /\ Len(text') = Len(text)
            /\ includes' = includes
            /\ current_include' = current_include
            /\ PendingPath \in included'
            /\ pc' = "parse" /\ comment' = 0
            /\ i' \in {PendingBegin - 1, PendingBegin}
            /\ StartsWith(text', PendingBegin, <<PCT>>) => LiveBegin' = PendingBegin + 1]_vars
    /\ [](/\ Len(diagnostics) = Cardinality(Failed)
          /\ Done => (Result = "Err" <=> Failed # {}))

\* parse has ended with one diagnostic: an include has failed, and an
\* %include in a later line has spliced its file in
C23_Witness ==
    /\ Done
    /\ Result = "Err"
    /\ Len(diagnostics) = 1
    /\ \E j, k \in 1..Len(calls) :
          /\ j < k
          /\ calls[j].outcome = "failed" /\ calls[j].from = RootPath
          /\ calls[k].outcome = "spliced" /\ calls[k].from = RootPath

\* the offsets at which a neutralised directive line with the word w begins
Neutralised(w) ==
    { p \in Positions : p < region.end /\ StartsWith(text, p, <<NL, HASH>> \o w) }

\* C24: every step into, within and out of a region of positive depth leaves
\* the define set, the include table, current_include, the set of included
\* paths, the diagnostics and the length of the buffer as they are, so they
\* are at the closing %endif what they were at the false %if; such a step
\* leaves each byte as it is or overwrites it with '#', and no byte moves.
C24_NeutralisedNoEffect ==
    [][comment > 0 \/ comment' > 0 =>
          /\ defines' = defines
          /\ includes' = includes
          /\ current_include' = current_include
          /\ included' = included
          /\ diagnostics' = diagnostics
          /\ Len(text') = Len(text)
          /\ origin' = origin
          /\ \A p \in Positions : At(text', p) \in {At(text, p), HASH}]_vars

\* parse has ended behind the %endif of a false %if whose region holds an
\* %include line: nothing was included
C24_Witness ==
    /\ Done
    /\ comment = 0
    /\ region.end >= 0 /\ region.end <= Len(text)
    /\ Neutralised(W_include) # {}
    /\ calls = <<>>
    /\ included = {}
    /\ Len(includes) = 1
    /\ Len(text) = Len(root)

\* the ids of the block nodes of target t
IdsOf(t) == {blocks[t][k].id : k \in 1..Len(blocks[t])}

\* C13: within one target no two block nodes have the same id, so each id is
\* written as a node at most once; the ids start again with every target, so
\* they are unique per target and not across targets.
C13_IdsUniquePerTarget ==
    \A t \in 1..Len(blocks) :
        /\ \A j, k \in 1..Len(blocks[t]) : j # k => blocks[t][j].id # blocks[t][k].id
        /\ blocks[t] # <<>> => blocks[t][1].id = FirstId

\* both targets are emitted, the sprite with nine blocks or more, and every
\* id of the Stage is an id of the sprite too
C13_Witness ==
    /\ emit = "done"
    /\ Len(blocks[2]) >= 9
    /\ IdsOf(1) # {}
    /\ IdsOf(1) \subseteq IdsOf(2)


-----------------------------------------------------------------------------
(* Properties of the name qualifier and the declarations *)

\* the calls of qualify_name that gave a QualifiedName
Resolutions == {k \in 1..Len(resolved) : resolved[k].outcome.result # None}

\* the storage key a call resolved its name to
KeyOf(k) == resolved[k].outcome.result[1].key

\* the keys of the "variables" and "lists" maps of target t
KeysOf(t) == variables[t] \cup lists[t]

\* C11: every storage key qualify_name resolves a name to while a target is
\* emitted is a key of the "variables" or "lists" map of that target - or, the
\* lists and variables of the stage being those of every sprite, of the map of
\* the Stage. (The claim names only the map of the target itself; a run that
\* violates this violates the claim.)
C11_ResolvedKeysDeclared ==
    \A k \in Resolutions : KeyOf(k) \in KeysOf(resolved[k].target) \cup KeysOf(1)

\* the declarations of target t are all made
Declared(t) ==
    \/ t < ntarget
    \/ t = ntarget /\ nphase # "sprite" /\ todo = <<>>

\* the used variables of target t whose type is a struct the target declares
StructVars(t) ==
    { v \in Range(Used(sprites[t].vars)) : v.type \in DOMAIN sprites[t].structs }

\* C15 as claimed: for a used variable p of the struct type Point with the
\* fields x and y, the "variables" map of the target has the keys "x.p" and
\* "y.p", the field before the variable, and no key "p".
C15_StructVarKeysFieldFirst ==
    \A t \in 1..Len(sprites) : Declared(t) =>
        \A v \in StructVars(t) :
            /\ \A f \in Range(sprites[t].structs[v.type]) :
                  (f \o "." \o v.name) \in variables[t]
            /\ v.name \notin variables[t]

\* C15: for a used variable p of the struct type Point with the fields x and
\* y, the "variables" map of the target has the keys "p.x" and "p.y", the
\* variable before the field, and neither a key "p" nor the keys "x.p", "y.p".
C15_StructVarKeysVarFirst ==
    \A t \in 1..Len(sprites) : Declared(t) =>
        \A v \in StructVars(t) :
            /\ \A f \in Range(sprites[t].structs[v.type]) :
                  /\ (v.name \o "." \o f) \in variables[t]
                  /\ (f \o "." \o v.name) \notin variables[t]
            /\ v.name \notin variables[t]

\* the sprite has declared its used variable p of the struct type Point
C15_Witness ==
    /\ Declared(2)
    /\ \E v \in StructVars(2) : v.name = "p" /\ v.type = "Point"
    /\ {"p.x", "p.y"} \subseteq variables[2]


\* the nodes of target t written for a Return statement
ReturnNodes(t) ==
    { k \in 1..Len(blocks[t]) :
        /\ blocks[t][k].of[2] >= 1
        /\ project[t][blocks[t][k].of[1]].body[blocks[t][k].of[2]] = "Return" }

\* the calls of qualify_name with a name of struct type and no field name
WithoutField == { k \in 1..Len(resolved) : resolved[k].outcome.stderr }

\* C17 as claimed: emission is aborted once a Return statement has reached
\* the statement emitter, and once a name of struct type without a field name
\* has reached qualify_name.
C17_InternalViolationsAbort ==
    /\ \A t \in 1..Len(blocks) : ReturnNodes(t) # {} => emit = "aborted"
    /\ WithoutField # {} => nphase = "aborted"


\* whether the declarations vs hold the name b, and what they hold under it
Has(vs, b) == \E k \in 1..Len(vs) : vs[k].name = b
Held(vs, b) == vs[CHOOSE k \in 1..Len(vs) : vs[k].name = b]

\* the outcome the order of C18 gives for the name in the context s: the
\* first of sprite list, stage list, local of the callable, sprite variable
\* and stage variable that holds the basename decides the variant, the type
\* and the key (a local is prefixed with the name of its callable); with none
\* of them the outcome is no result and one UnrecognizedVariable on the name
InOrder(s, name) ==
    LET b == name.basename
        stage_lists == IF s.stage = None THEN <<>> ELSE s.stage[1].lists
        stage_vars == IF s.stage = None THEN <<>> ELSE s.stage[1].vars
        owner == IF s.proc # None THEN s.proc ELSE s.func
        locals == IF owner = None THEN <<>> ELSE owner[1].locals
        As(variant, key, var) ==
            QualifyField(s, NameSpan(name), key, name.fieldname, var.type, variant)
    IN  IF Has(s.sprite.lists, b) THEN As("List", b, Held(s.sprite.lists, b))
        ELSE IF Has(stage_lists, b) THEN As("List", b, Held(stage_lists, b))
        ELSE IF Has(locals, b) THEN As("Var", owner[1].name \o ":" \o b, Held(locals, b))
        ELSE IF Has(s.sprite.vars, b) THEN As("Var", b, Held(s.sprite.vars, b))
        ELSE IF Has(stage_vars, b) THEN As("Var", b, Held(stage_vars, b))
        ELSE Outcome(None, << Diag("UnrecognizedVariable", NameSpan(name)) >>, FALSE)

\* C18: qualify_name resolves a basename in the order sprite list, stage list,
\* local of the current proc or func, sprite variable, stage variable: a name
\* that is a list and a local or a variable resolves to the list, a local
\* shadows a variable of the same name and its key is prefixed with the name
\* of the callable, and a name that matches none reports UnrecognizedVariable
\* and has no result.
C18_ResolutionOrder ==
    \A k \in 1..Len(resolved) :
        /\ resolved[k].outcome = InOrder(resolved[k].s, resolved[k].name)
        /\ resolved[k].outcome.result # None /\ GetList(resolved[k].s, resolved[k].name.basename) # None
              => resolved[k].outcome.result[1].variant = "List"
        /\ (\E d \in Range(resolved[k].outcome.reported) : d.kind = "UnrecognizedVariable")
              => /\ resolved[k].outcome.result = None
                 /\ Binding(resolved[k].s, resolved[k].name.basename) = None

\* in the proc foo of the sprite, p is a list of the Stage, a local of foo
\* and a variable of the sprite, and the call resolves it to the list p
C18_Witness ==
    \E k \in 1..Len(resolved) :
        LET s == resolved[k].s
        IN  /\ s.proc # None /\ Has(s.proc[1].locals, "p")
            /\ ~Has(s.sprite.lists, "p")
            /\ s.stage # None /\ Has(s.stage[1].lists, "p")
            /\ Has(s.sprite.vars, "p")
            /\ resolved[k].name = Name("p", None)
            /\ resolved[k].outcome.result =
                  Some(Qualified("List", "p", Held(s.stage[1].lists, "p").type))


\* C22 as claimed: a call of qualify_name that returns no result has reported
\* at least one diagnostic to the sink during the call, whatever the binding,
\* the field name and the struct tables are.
C22_NoneIsReported ==
    \A k \in 1..Len(resolved) :
        resolved[k].outcome.result = None => resolved[k].outcome.reported # <<>>




-----------------------------------------------------------------------------
(* Properties of the asset registry *)

\* the costume entries written into project.json
CostumeEntries ==
    { <<t, k>> \in (1..Len(entries)) \X (1..(MaxCostumes + 1)) : k <= Len(entries[t]) }
EntryAt(tk) == entries[tk[1]][tk[2]]

\* the archive has an entry of this name whose bytes hash to this hash
Archived(name, hash) ==
    \E z \in 1..Len(zip) : zip[z].name = name /\ Md5Hex(zip[z].content) = hash

\* C12: after project() has completed, for every costume entry with
\* md5ext = "H.E" the archive holds an entry named H.E whose content hashes to
\* H. (Stated for the entries with a hash; the entry of a costume whose file
\* could not be opened has the empty hash and no asset.)
C12_CostumeAssetsArchived ==
    aphase = "done"
        => \A tk \in CostumeEntries :
            EntryAt(tk).assetId # EmptyHash
                => Archived(EntryAt(tk).md5ext, EntryAt(tk).assetId)

\* the costume costume() is called with next, if any
NextCostume == costume_in[atarget][acostume]
CostumeCall == aphase = "costumes" /\ acostume <= Len(costume_in[atarget])

\* the paths no file is found under
MissingPaths == CostumePaths \ DOMAIN CostumeFiles

\* C16: a call of costume() for a costume whose file cannot be opened reports
\* one IOError on the span of the costume, writes a costume entry with the
\* empty hash, leaves the registry and the archive as they are and returns
\* without an error; such a path is never in the registry, every archive entry
\* holds the bytes of a registered file, and project() ends with an I/O error
\* only after a file that was opened could not be read.
C16_MissingCostume ==
    /\ [](/\ \A p \in MissingPaths : p \notin DOMAIN costumes
          /\ \A k \in 1..Len(zip) : \E p \in DOMAIN costumes \ MissingPaths :
                zip[k] = ZipEntry(HashDotExtension(costumes[p], ExtensionOrDefault(p)),
                                  CostumeFiles[p].content)
          /\ aphase = "io_error" =>
                /\ opens # <<>>
                /\ opens[Len(opens)] \notin MissingPaths
                /\ CostumeFiles[opens[Len(opens)]].kind = "unreadable")
    /\ [][CostumeCall /\ NextCostume.path \in MissingPaths =>
            /\ asink' = [asink EXCEPT ![atarget] =
                            Append(@, Diag("IOError", NextCostume.span))]
            /\ Len(entries'[atarget]) = Len(entries[atarget]) + 1
            /\ entries'[atarget][Len(entries'[atarget])].name = NextCostume.name
            /\ entries'[atarget][Len(entries'[atarget])].assetId = EmptyHash
            /\ costumes' = costumes
            /\ zip' = zip
            /\ aphase' = "costumes"
            /\ acostume' = acostume + 1]_vars

\* the first costume of the sprite has no file, its second one is hashed, the
\* Stage has a costume too, and project() has returned with two archive entries
C16_Witness ==
    /\ aphase = "done"
    /\ Len(entries[2]) = 2
    /\ costume_in[2][1].path \in MissingPaths
    /\ entries[2][1].assetId = EmptyHash
    /\ entries[2][2].assetId # EmptyHash
    /\ asink[2] = << Diag("IOError", costume_in[2][1].span) >>
    /\ Len(zip) = 2

\* how often costume() has opened the path
OpenCount(p) == Cardinality({ k \in 1..Len(opens) : opens[k] = p })

\* C19: over the calls of costume() for all targets, a path whose file has
\* been hashed is opened by costume() once and never again; a later call with
\* the path opens nothing and writes its entry with the stored hash, and no
\* step removes a path from the registry or changes the hash stored for it.
C19_HashedOnce ==
    /\ [](\A p \in DOMAIN costumes : OpenCount(p) = 1)
    /\ [][/\ \A p \in DOMAIN costumes :
                p \in DOMAIN costumes' /\ costumes'[p] = costumes[p]
          /\ CostumeCall /\ NextCostume.path \in DOMAIN costumes =>
                /\ opens' = opens
                /\ costumes' = costumes
                /\ entries'[atarget][Len(entries'[atarget])].assetId
                      = costumes[NextCostume.path]]_vars

\* the Stage and the sprite have the same file as their first costume: it is
\* opened once, and both entries have its hash
C19_Witness ==
    /\ Len(entries[1]) = 1
    /\ Len(entries[2]) >= 1
    /\ costume_in[1][1].path = costume_in[2][1].path
    /\ costume_in[1][1].path \in DOMAIN costumes
    /\ OpenCount(costume_in[1][1].path) = 1
    /\ entries[1][1].assetId = costumes[costume_in[1][1].path]
    /\ entries[2][1].assetId = costumes[costume_in[1][1].path]


=============================================================================
